---- MODULE Spec2Model ----
(***************************************************************************)
(* Model of app/utils/telegram_auth.py: verification of Telegram WebApp    *)
(* initData (parse variants, canonical data-check string, HMAC compare,    *)
(* the "user" normalisation search) together with the issuer/client path   *)
(* that produces the credential strings handed to verify_init_data.        *)
(*                                                                         *)
(* A Python str is a sequence of tokens.  A token [c, n, h] is the text c  *)
(* percent-encoded n times ("=" at n = 1 is "%3D", at n = 2 "%253D").      *)
(* Atoms are runs of unreserved characters; h carries the input of a       *)
(* digest for the tokens that stand for a 64-character hexdigest.          *)
(* The token texts are prefix-free, so comparing token sequences           *)
(* lexicographically is comparing the strings they stand for.              *)
(***************************************************************************)
EXTENDS Integers, Sequences, FiniteSets, TLC

VARIABLES bot_token, issuer, signed, fields, tampered, hashMode, serializer,
          plain, init_data, encCount, wrapped, pc, result

vars == <<bot_token, issuer, signed, fields, tampered, hashMode, serializer,
          plain, init_data, encCount, wrapped, pc, result>>

\* Number of times the transport may percent-encode the whole credential.
MaxEncode == 3

-----------------------------------------------------------------------------
(* Strings *)

Tok(c) == [c |-> c, n |-> 0, h |-> <<>>]
Lit(cs) == [i \in 1..Len(cs) |-> Tok(cs[i])]

EQ == Tok("=")
AMP == Tok("&")
NL == Tok("\\n")
BSL == Tok("\\")
SLASH == Tok("/")
DQ == Tok("\"")
SP == Tok(" ")
PLUS == Tok("+")

\* characters urllib.parse.quote leaves alone: letters, digits, "_.-~"
Atoms == {"auth_date", "hash", "query_id", "user", "tgWebAppData", "id", "name",
          "A", "0", "1", "7", "hexdigest", "hexdigesX"}
Digits == {"0", "1", "7"}

IsAtom(t) == t.n = 0 /\ t.c \in Atoms

\* urllib.parse.unquote on one character group: "%XX" decodes one level, a
\* malformed sequence ("%zz") and every plain character are left as they are.
UnquoteTok(t) == IF t.n > 0 THEN [t EXCEPT !.n = t.n - 1] ELSE t
unquote(s) == [i \in 1..Len(s) |-> UnquoteTok(s[i])]

\* urllib.parse.quote(s) with the default safe="/".
QuoteTok(t) == IF IsAtom(t) \/ t = SLASH THEN t ELSE [t EXCEPT !.n = t.n + 1]
quote(s) == [i \in 1..Len(s) |-> QuoteTok(s[i])]

\* urllib.parse.quote_plus(s): safe="", a space becomes "+".
QuotePlusTok(t) ==
  IF IsAtom(t) THEN t
  ELSE IF t = SP THEN PLUS
  ELSE [t EXCEPT !.n = t.n + 1]
quote_plus(s) == [i \in 1..Len(s) |-> QuotePlusTok(s[i])]

\* str.replace(a + b, r) for a two-character pattern, left to right.
RECURSIVE Replace2(_, _, _, _)
Replace2(s, a, b, r) ==
  IF Len(s) < 2 THEN s
  ELSE IF s[1] = a /\ s[2] = b
       THEN r \o Replace2(SubSeq(s, 3, Len(s)), a, b, r)
       ELSE <<s[1]>> \o Replace2(Tail(s), a, b, r)

\* str.split(sep): cur is the piece being read
RECURSIVE SplitFrom(_, _, _)
SplitFrom(s, sep, cur) ==
  IF s = <<>> THEN <<cur>>
  ELSE IF s[1] = sep THEN <<cur>> \o SplitFrom(Tail(s), sep, <<>>)
  ELSE SplitFrom(Tail(s), sep, Append(cur, s[1]))

Split(s, sep) == SplitFrom(s, sep, <<>>)

\* name.replace("+", " ") followed by unquote, as parse_qsl does to names and values
QslDecode(s) == unquote([i \in 1..Len(s) |-> IF s[i] = PLUS THEN SP ELSE s[i]])

\* str.split("=", 1) of one pair, with the blank value parse_qsl appends when
\* there is no "=", both parts decoded
RECURSIVE NameValue(_, _)
NameValue(name, rest) ==
  IF rest = <<>> THEN <<QslDecode(name), <<>>>>
  ELSE IF rest[1] = EQ THEN <<QslDecode(name), QslDecode(Tail(rest))>>
  ELSE NameValue(Append(name, rest[1]), Tail(rest))

\* the (name, value) list of parse_qsl: empty pairs are skipped
RECURSIVE Pairs(_)
Pairs(segs) ==
  IF segs = <<>> THEN <<>>
  ELSE (IF segs[1] = <<>> THEN <<>> ELSE <<NameValue(<<>>, segs[1])>>) \o Pairs(Tail(segs))

\* dict(pairs): the last value of a repeated name wins
Dict(pairs) ==
  [k \in {pairs[i][1] : i \in 1..Len(pairs)} |->
     pairs[CHOOSE i \in 1..Len(pairs) :
             pairs[i][1] = k /\ \A j \in (i + 1)..Len(pairs) : pairs[j][1] # k][2]]

\* dict(urllib.parse.parse_qsl(init_data, keep_blank_values=True))
parse_init_data(s) == Dict(Pairs(Split(s, AMP)))

HASH == <<Tok("hash")>>
USER == <<Tok("user")>>
AUTH_DATE == <<Tok("auth_date")>>
QUERY_ID == <<Tok("query_id")>>
TGWEBAPPDATA == <<Tok("tgWebAppData")>>

\* "%3d" in low or "%26" in low or "%7b" in low
LooksPercentEncoded(s) ==
  \E i \in 1..Len(s) : s[i].n = 1 /\ s[i].c \in {"=", "&", "{"}

\* return parsed, variant, norm
Variant(parsed, variant, norm) == <<parsed, variant, norm>>

\* Step 4 with one decoding where the code has two
Mut_Step4_once(s, parsed, variant, norm) ==
  Variant(parse_init_data(unquote(s)), "unquote_twice", unquote(s))

\* Step 4 with a third decoding
Mut_Step4_thrice(s, parsed, variant, norm) ==
  Variant(parse_init_data(unquote(unquote(unquote(s)))), "unquote_twice",
          unquote(unquote(unquote(s))))

\* 4) try unquote twice.  unquote and parse_qsl do not raise on a str, so the
\* except branch is not taken and this parse is what is returned.
Step4(s, parsed, variant, norm) ==
  Variant(parse_init_data(unquote(unquote(s))), "unquote_twice", unquote(unquote(s)))

Step3Parsed(s, un1, parsed_un1) ==
  IF HASH \in DOMAIN parsed_un1 THEN Variant(parsed_un1, "unquote_once", un1)
  ELSE Step4(s, parsed_un1, "unquote_once", un1)

\* Step 3 without its early return: the decode-once parse is only a fallback
Mut_Step3_no_return(s, parsed, variant, norm) ==
  IF LooksPercentEncoded(s)
  THEN Step4(s, parse_init_data(unquote(s)), "unquote_once", unquote(s))
  ELSE Step4(s, parsed, variant, norm)

\* 3) try unquote once if looks percent-encoded
Step3(s, parsed, variant, norm) ==
  IF LooksPercentEncoded(s)
  THEN Step3Parsed(s, unquote(s), parse_init_data(unquote(s)))
  ELSE Step4(s, parsed, variant, norm)

\* 2) the value of a top-level tgWebAppData key, decoded and parsed
Step2Parsed(s, inner, parsed_inner) ==
  IF HASH \in DOMAIN parsed_inner THEN Variant(parsed_inner, "tgWebAppData_inner", inner)
  ELSE Step3(s, parsed_inner, "tgWebAppData_inner", inner)

Step2(s, inner) == Step2Parsed(s, inner, parse_init_data(inner))

\* 1) try raw
Step1(s, parsed) ==
  IF HASH \in DOMAIN parsed THEN Variant(parsed, "raw", s)
  ELSE IF TGWEBAPPDATA \in DOMAIN parsed THEN Step2(s, unquote(parsed[TGWEBAPPDATA]))
  ELSE Step3(s, parsed, "raw", s)

\* _try_parse_variants: <<parsed, variant, norm>>
_try_parse_variants(s) == Step1(s, parse_init_data(s))

-----------------------------------------------------------------------------
(* sorted(parsed.keys()): code-point order of the strings *)

\* code point of the first character of a token's text
FirstChar(c) ==
  CASE c = " " -> 32 [] c = "\"" -> 34 [] c = "%zz" -> 37 [] c = "&" -> 38
    [] c = "+" -> 43 [] c = "," -> 44 [] c = "/" -> 47 [] c = "0" -> 48
    [] c = "1" -> 49 [] c = "7" -> 55 [] c = ":" -> 58 [] c = "=" -> 61
    [] c = "A" -> 65 [] c = "\\" -> 92 [] c = "auth_date" -> 97
    [] c = "hexdigest" -> 102 [] c = "hexdigesX" -> 103 [] c = "hash" -> 104
    [] c = "id" -> 105 [] c = "name" -> 110 [] c = "query_id" -> 113
    [] c = "tgWebAppData" -> 116 [] c = "user" -> 117 [] c = "{" -> 123
    [] c = "}" -> 125 [] c = "\\n" -> 10 [] OTHER -> 233

\* UTF-8 bytes quote() writes for the character ("U+00E9" is C3 A9)
Utf8(c) == IF c = "U+00E9" THEN <<195, 169>> ELSE <<FirstChar(c)>>

\* the text of a token as a sequence of comparable units: the first character,
\* or "%" followed by the two-digit groups of the escape ("%25" is 37)
TokKey(t) ==
  LET pct == [i \in 1..t.n |-> 37]
  IN IF t.c = "%zz" THEN pct \o <<37, 999>>
     ELSE IF t.n = 0 THEN <<FirstChar(t.c)>>
     ELSE LET b == Utf8(t.c)
          IN pct \o <<b[1]>> \o (IF Len(b) = 2 THEN pct \o <<b[2]>> ELSE <<>>)

RECURSIVE NumLess(_, _)
NumLess(a, b) ==
  IF a = <<>> THEN b # <<>>
  ELSE IF b = <<>> THEN FALSE
  ELSE IF a[1] # b[1] THEN a[1] < b[1]
  ELSE NumLess(Tail(a), Tail(b))

RECURSIVE StrLess(_, _)
StrLess(a, b) ==
  IF a = <<>> THEN b # <<>>
  ELSE IF b = <<>> THEN FALSE
  ELSE IF a[1] # b[1] THEN NumLess(TokKey(a[1]), TokKey(b[1]))
  ELSE StrLess(Tail(a), Tail(b))

RECURSIVE Sorted(_)
SortedFrom(m, ks) == <<m>> \o Sorted(ks \ {m})
Sorted(ks) ==
  IF ks = {} THEN <<>>
  ELSE SortedFrom(CHOOSE k \in ks : \A o \in ks \ {k} : StrLess(k, o), ks)

RECURSIVE Join(_, _)
Join(items, sep) ==
  IF items = <<>> THEN <<>>
  ELSE IF Len(items) = 1 THEN items[1]
  ELSE items[1] \o <<sep>> \o Join(Tail(items), sep)

\* items: f"{k}={parsed[k]}" for k in ks
Items(parsed, ks) == [i \in 1..Len(ks) |-> ks[i] \o <<EQ>> \o parsed[ks[i]]]

\* the pairs joined by "&" where the code joins them by a newline
Mut_build_data_check_string_amp(parsed) ==
  Join(Items(parsed, Sorted(DOMAIN parsed)), AMP)

\* _build_data_check_string_from_parsed
_build_data_check_string_from_parsed(parsed) ==
  Join(Items(parsed, Sorted(DOMAIN parsed)), NL)

\* hashlib.sha256(bot_token).hexdigest(): an ideal hash, named by its input
Sha256Hex(token) == <<"sha256", token>>

\* _compute_hmac_hex: HMAC-SHA256 keyed by SHA256(bot_token), as a hexdigest;
\* an ideal keyed hash is one-to-one in (key, message)
_compute_hmac_hex(token, data_check_string) ==
  <<[c |-> "hexdigest", n |-> 0, h |-> <<token, data_check_string>>]>>

\* str.isascii() of a string
IsAscii(s) == \A i \in 1..Len(s) : s[i].c # "U+00E9" \/ s[i].n > 0

-----------------------------------------------------------------------------
(* json.loads / json.dumps on the characters of the alphabet: objects, strings *)
(* and non-negative integers; blanks are the only whitespace.                  *)

JNull == [k |-> "null", s |-> <<>>, m |-> <<>>]
JFail == [ok |-> FALSE, v |-> JNull, rest |-> <<>>]
JOk(v, rest) == [ok |-> TRUE, v |-> v, rest |-> rest]

IsDigit(t) == t.n = 0 /\ t.c \in Digits

RECURSIVE SkipWs(_)
SkipWs(s) == IF s # <<>> /\ s[1] = SP THEN SkipWs(Tail(s)) ELSE s

\* the body of a string after its opening quote; \", \\ and \/ are the escapes
\* the alphabet can spell, a raw newline is a control character
RECURSIVE ScanString(_, _)
ScanString(s, acc) ==
  IF s = <<>> \/ s[1] = NL THEN JFail
  ELSE IF s[1] = DQ THEN JOk([k |-> "str", s |-> acc, m |-> <<>>], Tail(s))
  ELSE IF s[1] = BSL
       THEN IF Len(s) >= 2 /\ s[2] \in {DQ, BSL, SLASH}
            THEN ScanString(SubSeq(s, 3, Len(s)), Append(acc, s[2]))
            ELSE JFail
  ELSE ScanString(Tail(s), Append(acc, s[1]))

RECURSIVE ScanDigits(_, _)
ScanDigits(s, acc) ==
  IF s # <<>> /\ IsDigit(s[1]) THEN ScanDigits(Tail(s), Append(acc, s[1]))
  ELSE JOk([k |-> "num", s |-> acc, m |-> <<>>], s)

\* dict[key] = value: a repeated key keeps its place and takes the new value
DictSet(m, key, val) ==
  IF \E i \in 1..Len(m) : m[i][1] = key
  THEN [i \in 1..Len(m) |-> IF m[i][1] = key THEN <<key, val>> ELSE m[i]]
  ELSE Append(m, <<key, val>>)

RECURSIVE ParseValue(_)
RECURSIVE ParseMembers(_, _)

\* after a member's value: "}" ends the object, "," starts the next member
MemberNext(m, r) ==
  IF r = <<>> THEN JFail
  ELSE IF r[1] = Tok("}") THEN JOk([k |-> "obj", s |-> <<>>, m |-> m], Tail(r))
  ELSE IF r[1] = Tok(",") THEN ParseMembers(SkipWs(Tail(r)), m)
  ELSE JFail

MemberValue(key, val, acc) ==
  IF ~val.ok THEN JFail
  ELSE MemberNext(DictSet(acc, key, val.v), SkipWs(val.rest))

\* after a member's name: ":" and the value
MemberColon(key, r, acc) ==
  IF ~key.ok \/ r = <<>> \/ r[1] # Tok(":") THEN JFail
  ELSE MemberValue(key.v.s, ParseValue(SkipWs(Tail(r))), acc)

MemberName(key, acc) == MemberColon(key, SkipWs(key.rest), acc)

ParseValue(s) ==
  IF s = <<>> THEN JFail
  ELSE IF s[1] = DQ THEN ScanString(Tail(s), <<>>)
  ELSE IF s[1] = Tok("{")
       THEN IF SkipWs(Tail(s)) # <<>> /\ SkipWs(Tail(s))[1] = Tok("}")
            THEN JOk([k |-> "obj", s |-> <<>>, m |-> <<>>], Tail(SkipWs(Tail(s))))
            ELSE ParseMembers(SkipWs(Tail(s)), <<>>)
  ELSE IF s[1] = Tok("0") THEN JOk([k |-> "num", s |-> <<s[1]>>, m |-> <<>>], Tail(s))
  ELSE IF IsDigit(s[1]) THEN ScanDigits(s, <<>>)
  ELSE JFail

\* the members of an object, from the quote that opens a name
ParseMembers(s, acc) ==
  IF s = <<>> \/ s[1] # DQ THEN JFail
  ELSE MemberName(ScanString(Tail(s), <<>>), acc)

\* json.loads(s): the whole string must be one value between blanks
json_loads(s) ==
  LET r == ParseValue(SkipWs(s))
  IN IF r.ok /\ SkipWs(r.rest) = <<>> THEN r ELSE JFail

RECURSIVE EscapeString(_)
EscapeString(s) ==
  IF s = <<>> THEN <<>>
  ELSE (IF s[1] \in {DQ, BSL} THEN <<BSL, s[1]>> ELSE <<s[1]>>) \o EscapeString(Tail(s))

\* json.dumps(obj, separators=(",", ":"), ensure_ascii=False)
RECURSIVE json_dumps(_)
json_dumps(v) ==
  IF v.k = "str" THEN <<DQ>> \o EscapeString(v.s) \o <<DQ>>
  ELSE IF v.k = "num" THEN v.s
  ELSE LET items == [i \in 1..Len(v.m) |->
                       <<DQ>> \o EscapeString(v.m[i][1]) \o <<DQ, Tok(":")>>
                         \o json_dumps(v.m[i][2])]
       IN <<Tok("{")>> \o Join(items, Tok(",")) \o <<Tok("}")>>

-----------------------------------------------------------------------------
(* The verifier *)

\* candidate_parsed = dict(parsed); candidate_parsed["user"] = user_candidate
WithUser(parsed, user_candidate) ==
  [k \in DOMAIN parsed \cup {USER} |-> IF k = USER THEN user_candidate ELSE parsed[k]]

\* the candidates in the order the code appends them, the JSON one when
\* json.loads did not raise
VariantList(user_val, candidate, obj) ==
  <<<<"original_user", user_val>>, <<"replace_escaped_slashes", candidate>>>>
  \o (IF obj.ok THEN <<<<"user_json_parsed_and_dumped", json_dumps(obj.v)>>>> ELSE <<>>)
  \o <<<<"remove_backslash_before_quote", Replace2(user_val, BSL, DQ, <<DQ>>)>>,
       <<"unescape_double_backslashes", Replace2(user_val, BSL, BSL, <<BSL>>)>>>>

VariantsOf(user_val, candidate) == VariantList(user_val, candidate, json_loads(candidate))

RECURSIVE EscapeSlashes(_)
EscapeSlashes(x) ==
  IF x = <<>> THEN <<>>
  ELSE (IF x[1] = SLASH THEN <<BSL, SLASH>> ELSE <<x[1]>>) \o EscapeSlashes(Tail(x))

\* the slash replacement in the other direction: "/" becomes "\/"
Mut_UserVariants_escape(user_val) == VariantsOf(user_val, EscapeSlashes(user_val))

\* the list without the backslash-before-quote candidate
Mut_UserVariants_no_quote(user_val) ==
  SelectSeq(VariantsOf(user_val, Replace2(user_val, BSL, SLASH, <<SLASH>>)),
            LAMBDA v : v[1] # "remove_backslash_before_quote")

\* the list `variants` of _try_user_normalizations_and_verify: <<name, value>>
UserVariants(user_val) == VariantsOf(user_val, Replace2(user_val, BSL, SLASH, <<SLASH>>))

\* "Deduplicate preserving order"
RECURSIVE DedupFrom(_, _)
DedupFrom(variants, seen) ==
  IF variants = <<>> THEN <<>>
  ELSE IF variants[1][2] \in seen THEN DedupFrom(Tail(variants), seen)
  ELSE <<variants[1]>> \o DedupFrom(Tail(variants), seen \cup {variants[1][2]})

Dedup(variants) == DedupFrom(variants, {})

\* "Try each candidate by reconstructing parsed dict and computing HMAC"
RECURSIVE TryCandidates(_, _, _, _)
TryCandidates(parsed, provided_hash, token, uniq) ==
  IF uniq = <<>> THEN <<FALSE, parsed, "user_norm_none">>
  ELSE IF _compute_hmac_hex(token,
            _build_data_check_string_from_parsed(WithUser(parsed, uniq[1][2]))) = provided_hash
       THEN <<TRUE, WithUser(parsed, uniq[1][2]), uniq[1][1]>>
  ELSE TryCandidates(parsed, provided_hash, token, Tail(uniq))

\* a match returns the map as parsed, not the candidate that matched
Mut_try_user_normalizations_returns_parsed(parsed, provided_hash, token) ==
  IF USER \notin DOMAIN parsed THEN <<FALSE, parsed, "no_user">>
  ELSE <<TryCandidates(parsed, provided_hash, token, Dedup(UserVariants(parsed[USER])))[1],
         parsed, "user_norm">>

\* _try_user_normalizations_and_verify: <<ok, parsed, variant>>
_try_user_normalizations_and_verify(parsed, provided_hash, token) ==
  IF USER \notin DOMAIN parsed THEN <<FALSE, parsed, "no_user">>
  ELSE TryCandidates(parsed, provided_hash, token, Dedup(UserVariants(parsed[USER])))

\* int(s): blanks stripped, an optional "+", then digits; <<ok, digits without
\* leading zeros>>
RECURSIVE RStrip(_)
RStrip(s) == IF s # <<>> /\ s[Len(s)] = SP THEN RStrip(SubSeq(s, 1, Len(s) - 1)) ELSE s

RECURSIVE DropZeros(_)
DropZeros(s) == IF Len(s) > 1 /\ s[1] = Tok("0") THEN DropZeros(Tail(s)) ELSE s

Unsigned(t) == IF t # <<>> /\ t[1] = PLUS THEN Tail(t) ELSE t

IntOfDigits(d) ==
  IF d # <<>> /\ \A i \in 1..Len(d) : IsDigit(d[i])
  THEN <<TRUE, DropZeros(d)>> ELSE <<FALSE, <<>>>>

int(s) == IntOfDigits(Unsigned(RStrip(SkipWs(s))))

\* payload["auth_date"] = int(payload["auth_date"]) unless that raises.  A value
\* is tagged with its Python type.
Coerce(v, asInt) ==
  IF asInt[1] THEN [t |-> "int", v |-> asInt[2]] ELSE [t |-> "str", v |-> v]

\* payload = dict(parsed), auth_date converted
Payload(parsed) ==
  [k \in DOMAIN parsed |->
     IF k = AUTH_DATE THEN Coerce(parsed[k], int(parsed[k]))
     ELSE [t |-> "str", v |-> parsed[k]]]

\* one logger call: its format string and, when the call is handed the hex of
\* SHA256(bot_token), that hex
Log(level, msg) == [level |-> level, msg |-> msg, keyhex |-> <<>>]

Returned(ok, reason, payload, logs) ==
  [raised |-> "", ok |-> ok, reason |-> reason, payload |-> payload, logs |-> logs]
Raised(exc) ==
  [raised |-> exc, ok |-> FALSE, reason |-> "", payload |-> <<>>, logs |-> <<>>]

MissingHashLogs ==
  <<Log("warning", "init_data verification failed: no hash in init_data (variant tried: %s)"),
    Log("warning", "init_data (raw/normalized): %s"),
    Log("warning", "parsed keys: %s")>>

MismatchLogs(token) ==
  <<Log("warning", "init_data verification failed: hash_mismatch (variant tried: %s)"),
    Log("warning", "init_data (raw/normalized): %s"),
    Log("warning", "parsed fields: %s"),
    Log("warning", "data_check_string: %s"),
    [level |-> "warning", msg |-> "secret_key (SHA256(bot_token)) hex: %s",
     keyhex |-> Sha256Hex(token)],
    Log("warning", "computed_hmac: %s"),
    Log("warning", "provided_hash: %s")>>

\* parsed.pop("hash", None) leaves the other fields
WithoutHash(parsed) == [k \in DOMAIN parsed \ {HASH} |-> parsed[k]]

\* hmac.compare_digest(a, b) on two str raises TypeError unless both are ASCII
CompareDigestRaises(a, b) == ~IsAscii(a) \/ ~IsAscii(b)

\* lines 192-215: the user normalizations after a mismatch
AfterNormalizations(norm, token) ==
  IF norm[1]
  THEN Returned(TRUE, "", Payload(norm[2]),
         <<Log("info", "init_data verified successfully after user normalization (%s)")>>)
  ELSE Returned(FALSE, "hash_mismatch", <<>>, MismatchLogs(token))

\* lines 181-202: the comparison of the computed and the provided digest
Compare(parsed, provided_hash, computed_hmac, token) ==
  IF CompareDigestRaises(computed_hmac, provided_hash) THEN Raised("TypeError")
  ELSE IF computed_hmac = provided_hash
  THEN Returned(TRUE, "", Payload(parsed),
         <<Log("info", "init_data verified successfully (variant used: %s) user_id=%s")>>)
  ELSE AfterNormalizations(
         _try_user_normalizations_and_verify(parsed, provided_hash, token), token)

\* lines 177-179: the canonical string and its HMAC
ComputeAndCompare(parsed, provided_hash, token) ==
  Compare(parsed, provided_hash,
          _compute_hmac_hex(token, _build_data_check_string_from_parsed(parsed)), token)

\* lines 167-175: provided_hash = parsed.pop("hash", None); "if not provided_hash"
\* takes None and the empty string
Parsed(parsed, token) ==
  IF HASH \notin DOMAIN parsed \/ parsed[HASH] = <<>>
  THEN Returned(FALSE, "no hash in init_data", <<>>, MissingHashLogs)
  ELSE ComputeAndCompare(WithoutHash(parsed), parsed[HASH], token)

\* verify_init_data(init_data, bot_token); init_data is [str, s]: a str with its
\* characters, or a value of another type
verify_init_data(data, token) ==
  IF ~data.str THEN Returned(FALSE, "init_data not a string", <<>>, <<>>)
  ELSE Parsed(_try_parse_variants(data.s)[1], token)

-----------------------------------------------------------------------------
(* The inputs: field maps an issuer signs, and what a client and the          *)
(* transport do to the credential before routers/auth.py hands it over.       *)

Secrets == {"BOTTOKEN", "OTHERTOKEN"}

V_1700000000 == Lit(<<"1", "7", "0", "0", "0", "0", "0", "0", "0", "0">>)
V_AAA == Lit(<<"A", "A", "A">>)
V_A == Lit(<<"A">>)
V_blank01 == Lit(<<" ", "0", "1">>)
V_special == Lit(<<"A", "&", "=", "%zz", "+", " ", "U+00E9", "/">>)

U_concrete == Lit(<<"{", "\"", "id", "\"", ":", "1", ",",
                    "\"", "name", "\"", ":", "\"", "A", "\"", "}">>)
U_obj == Lit(<<"{", "\"", "A", "\"", ":", "1", "}">>)
U_ws == Lit(<<"{", "\"", "A", "\"", ":", " ", "1", "}">>)
U_slash == Lit(<<"{", "\"", "A", "\"", ":", "\"", "/", "\"", "}">>)
U_eslash == Lit(<<"{", "\"", "A", "\"", ":", "\"", "\\", "/", "\"", "}">>)
U_dbslash == Lit(<<"{", "\"", "A", "\"", ":", "\"", "\\", "\\", "/", "\"", "}">>)
U_bquote == Lit(<<"{", "\\", "\"", "A", "\\", "\"", ":", "1", "}">>)

UserVals == {U_concrete, U_obj, U_ws, U_slash, U_eslash, U_dbslash, U_bquote, V_A}

SignedMaps ==
  {(AUTH_DATE :> V_1700000000) @@ (QUERY_ID :> V_AAA) @@ (USER :> U_concrete),
   (AUTH_DATE :> V_A), (AUTH_DATE :> V_blank01) @@ (QUERY_ID :> V_special), <<>>,
   (<<>> :> V_A) @@ (QUERY_ID :> <<>>)}
  \cup {(QUERY_ID :> V_A) @@ (USER :> u) : u \in UserVals \ {U_concrete}}

Pool(k) ==
  IF k = USER THEN UserVals
  ELSE IF k = AUTH_DATE THEN {V_1700000000, V_A, V_blank01}
  ELSE {V_A, V_AAA, V_special}

NoResult == [raised |-> "", ok |-> FALSE, reason |-> "not called", payload |-> <<>>,
             logs |-> <<>>]

Init ==
  /\ bot_token \in Secrets
  /\ issuer = "" /\ signed = <<>> /\ fields = <<>>
  /\ tampered = <<>> /\ hashMode = "valid" /\ serializer = ""
  /\ plain = <<>> /\ init_data = [str |-> TRUE, s |-> <<>>]
  /\ encCount = 0 /\ wrapped = FALSE
  /\ pc = "issue" /\ result = NoResult

\* The issuer's side of the scheme: name=value lines in ascending order of the
\* names, and the keyed digest of that text under the key SHA256(secret).
Lines(M, ks) == [i \in 1..Len(ks) |-> ks[i] \o <<EQ>> \o M[ks[i]]]
CanonicalString(M) == Join(Lines(M, Sorted(DOMAIN M)), NL)

Signature(M, secret) ==
  <<[c |-> "hexdigest", n |-> 0, h |-> <<secret, CanonicalString(M)>>]>>

\* the issuer signs M with its secret
Sign(M, secret) ==
  /\ pc = "issue"
  /\ issuer' = secret /\ signed' = M
  /\ fields' = (HASH :> Signature(M, secret)) @@ M
  /\ pc' = "client"
  /\ UNCHANGED <<bot_token, tampered, hashMode, serializer, plain, init_data,
                 encCount, wrapped, result>>

\* one field's value is replaced by a different one after signing
Tamper(k, v) ==
  /\ pc = "client" /\ tampered = <<>> /\ hashMode = "valid"
  /\ k \in DOMAIN signed /\ v # fields[k]
  /\ fields' = [fields EXCEPT ![k] = v]
  /\ tampered' = k
  /\ UNCHANGED <<bot_token, issuer, signed, hashMode, serializer, plain, init_data,
                 encCount, wrapped, pc, result>>

\* the signature field is dropped, blanked, changed in its last hex character,
\* or given a non-ASCII character
MangleHash(mode) ==
  /\ pc = "client" /\ tampered = <<>> /\ hashMode = "valid"
  /\ hashMode' = mode
  /\ fields' =
       CASE mode = "absent" -> [k \in DOMAIN fields \ {HASH} |-> fields[k]]
         [] mode = "empty" -> [fields EXCEPT ![HASH] = <<>>]
         [] mode = "last_hex" -> [fields EXCEPT ![HASH] = <<[@[1] EXCEPT !.c = "hexdigesX"]>>]
         [] mode = "non_ascii" -> [fields EXCEPT ![HASH] = Append(@, Tok("U+00E9"))]
  /\ UNCHANGED <<bot_token, issuer, signed, tampered, serializer, plain, init_data,
                 encCount, wrapped, pc, result>>

\* name=value pairs joined by "&", in some order of the fields
Encoded(mode, x) == IF mode = "urlencode" THEN quote_plus(x) ELSE x
Serialize(mode, order) ==
  Join([i \in 1..Len(order) |->
          Encoded(mode, order[i]) \o <<EQ>> \o Encoded(mode, fields[order[i]])], AMP)

Reverse(s) == [i \in 1..Len(s) |-> s[Len(s) + 1 - i]]

Present(mode, rev) ==
  /\ pc = "client"
  /\ serializer' = mode
  /\ plain' = Serialize(mode, IF rev THEN Reverse(Sorted(DOMAIN fields))
                                 ELSE Sorted(DOMAIN fields))
  /\ init_data' = [str |-> TRUE, s |-> plain']
  /\ pc' = "wire"
  /\ UNCHANGED <<bot_token, issuer, signed, fields, tampered, hashMode,
                 encCount, wrapped, result>>

\* the transport percent-encodes the whole credential once more
PercentEncode ==
  /\ pc = "wire" /\ init_data.str /\ encCount < MaxEncode
  /\ init_data' = [init_data EXCEPT !.s = quote(@)]
  /\ encCount' = encCount + 1
  /\ UNCHANGED <<bot_token, issuer, signed, fields, tampered, hashMode, serializer,
                 plain, wrapped, pc, result>>

\* the credential arrives as the value of a tgWebAppData=... launch parameter
Wrap ==
  /\ pc = "wire" /\ init_data.str /\ ~wrapped
  /\ init_data' = [init_data EXCEPT !.s = TGWEBAPPDATA \o <<EQ>> \o quote(@)]
  /\ wrapped' = TRUE
  /\ UNCHANGED <<bot_token, issuer, signed, fields, tampered, hashMode, serializer,
                 plain, encCount, pc, result>>

\* the JSON body carries init_data as a value that is not a string
SendNonString ==
  /\ pc = "wire" /\ init_data.str /\ encCount = 0 /\ ~wrapped
  /\ init_data' = [str |-> FALSE, s |-> <<>>]
  /\ UNCHANGED <<bot_token, issuer, signed, fields, tampered, hashMode, serializer,
                 plain, encCount, wrapped, pc, result>>

\* ok, payload_or_err = verify_init_data(init_data, settings.BOT_TOKEN)
Verify ==
  /\ pc = "wire"
  /\ result' = verify_init_data(init_data, bot_token)
  /\ pc' = "done"
  /\ UNCHANGED <<bot_token, issuer, signed, fields, tampered, hashMode, serializer,
                 plain, init_data, encCount, wrapped>>

Next ==
  \/ \E M \in SignedMaps, secret \in Secrets : Sign(M, secret)
  \/ \E k \in {USER, AUTH_DATE, QUERY_ID} : \E v \in Pool(k) : Tamper(k, v)
  \/ \E mode \in {"absent", "empty", "last_hex", "non_ascii"} : MangleHash(mode)
  \/ \E mode \in {"urlencode", "naive"}, rev \in BOOLEAN : Present(mode, rev)
  \/ PercentEncode
  \/ Wrap
  \/ SendNonString
  \/ Verify

Spec == Init /\ [][Next]_vars

-----------------------------------------------------------------------------
(* Properties *)

Done == pc = "done"
Returns == Done /\ result.raised = ""
Success == Returns /\ result.ok
Fails(reason) == Returns /\ ~result.ok /\ result.reason = reason

\* the credential is the issuer's own, signed with the verifier's secret and
\* handed over as one plain query string
Direct == init_data.str /\ encCount = 0 /\ ~wrapped
Genuine == issuer = bot_token /\ hashMode = "valid"

\* the returned value of a field of M: auth_date as an int when int() takes it
Coerced(M, k) ==
  IF k = AUTH_DATE /\ int(M[k])[1]
  THEN [t |-> "int", v |-> int(M[k])[2]] ELSE [t |-> "str", v |-> M[k]]

\* C1: a field map signed with the verifier's secret and serialized as a query
\* string (names and values percent-encoded, any field order) verifies, and the
\* returned map has exactly the signed keys and values, auth_date as an integer.
C1_RoundTrip ==
  (Done /\ Direct /\ Genuine /\ tampered = <<>> /\ serializer = "urlencode")
    => /\ Success
       /\ DOMAIN result.payload = DOMAIN signed
       /\ \A k \in DOMAIN signed : result.payload[k] = Coerced(signed, k)

C1_Witness ==
  /\ Done /\ Direct /\ Genuine /\ tampered = <<>> /\ serializer = "urlencode"
  /\ DOMAIN signed = {AUTH_DATE, QUERY_ID, USER}
  /\ Success /\ result.payload[AUTH_DATE] = [t |-> "int", v |-> V_1700000000]

HasEscapedSlash(v) == \E i \in 1..(Len(v) - 1) : v[i] = BSL /\ v[i + 1] = SLASH
Unescaped(v) == Replace2(v, BSL, SLASH, <<SLASH>>)

\* C2 as stated: signed over a user value with escaped slashes, presented with
\* those slashes unescaped and nothing else changed, the credential verifies.
C2_SignedEscapedPresentedPlain ==
  (Done /\ Direct /\ Genuine /\ tampered = USER /\ serializer = "urlencode"
     /\ HasEscapedSlash(signed[USER]) /\ fields[USER] = Unescaped(signed[USER]))
    => Success

\* C2, amended: signed over a user value and presented with slashes of it
\* escaped (unescaping the presented value gives the signed one), the credential
\* verifies and the signed value is returned; hash_mismatch is not.
C2_SignedPlainPresentedEscaped ==
  (Done /\ Direct /\ Genuine /\ tampered = USER /\ serializer = "urlencode"
     /\ HasEscapedSlash(fields[USER]) /\ Unescaped(fields[USER]) = signed[USER])
    => /\ Success
       /\ result.payload[USER] = [t |-> "str", v |-> signed[USER]]

C2_Witness ==
  /\ Done /\ Direct /\ Genuine /\ tampered = USER /\ serializer = "urlencode"
  /\ signed[USER] = U_slash /\ fields[USER] = U_eslash
  /\ Success

NoBlanks(v) == SelectSeq(v, LAMBDA t : t # SP)

\* the new value is the signed JSON text with other insignificant whitespace
WhitespaceReserialization(old, new) ==
  /\ json_loads(old).ok /\ json_loads(new).ok
  /\ json_loads(old).v = json_loads(new).v
  /\ NoBlanks(old) = NoBlanks(new)

\* the signed value is what one of the recovery transformations makes of the
\* presented one
Recovers(presented, old) ==
  \/ old = Unescaped(presented)
  \/ json_loads(Unescaped(presented)).ok
       /\ old = json_dumps(json_loads(Unescaped(presented)).v)
  \/ old = Replace2(presented, BSL, DQ, <<DQ>>)
  \/ old = Replace2(presented, BSL, BSL, <<BSL>>)

SingleTamper ==
  Done /\ Direct /\ Genuine /\ tampered # <<>> /\ serializer = "urlencode"

\* C3 as stated: one field replaced by another value, other than a whitespace
\* re-serialization of the user JSON, gives hash_mismatch.
C3_TamperAlwaysMismatch ==
  (SingleTamper
     /\ ~(tampered = USER /\ WhitespaceReserialization(signed[USER], fields[USER])))
    => Fails("hash_mismatch")

\* C3, amended: one field replaced by another value gives hash_mismatch, unless
\* it is the user field and a recovery transformation turns the new value into
\* the signed one; then the credential verifies and the signed value is returned.
C3_TamperMismatchUnlessRecovered ==
  SingleTamper =>
    IF tampered = USER /\ Recovers(fields[USER], signed[USER])
    THEN Success /\ result.payload[USER] = [t |-> "str", v |-> signed[USER]]
    ELSE Fails("hash_mismatch")

C3_Witness ==
  /\ SingleTamper /\ tampered = QUERY_ID /\ USER \in DOMAIN signed
  /\ Fails("hash_mismatch")

\* C4: on success, a user value that parses as JSON is returned as the decoded
\* structure (for BOTTOKEN / 1700000000 / AAA / {"id":1,"name":"A"} too).
C4_UserDecoded ==
  (Success /\ USER \in DOMAIN result.payload
     /\ json_loads(WithoutHash(_try_parse_variants(init_data.s)[1])[USER]).ok)
    => result.payload[USER].t = "json"

C4_Witness ==
  /\ Success /\ bot_token = "BOTTOKEN" /\ Direct
  /\ signed = (AUTH_DATE :> V_1700000000) @@ (QUERY_ID :> V_AAA) @@ (USER :> U_concrete)
  /\ result.payload[USER] = [t |-> "str", v |-> U_concrete]

\* C5: every call returns: success, or a failure with one of the three reasons.
C5_NeverRaises ==
  Done => /\ result.raised = ""
          /\ \/ result.ok
             \/ result.reason \in {"init_data not a string", "no hash in init_data",
                                   "hash_mismatch"}

C5_Witness == Done /\ hashMode = "non_ascii" /\ result.raised = "TypeError"

\* C6: no log record carries the complete signing key SHA256(bot_token).
C6_NoFullKeyLogged ==
  Done => \A i \in 1..Len(result.logs) : result.logs[i].keyhex # Sha256Hex(bot_token)

C6_Witness ==
  /\ Fails("hash_mismatch")
  /\ \E i \in 1..Len(result.logs) : result.logs[i].keyhex = Sha256Hex(bot_token)

\* C7: a payload that verifies as it is also verifies percent-encoded as a whole
\* once or twice, with the same returned map.
C7_PercentEncodingTolerance ==
  (Done /\ init_data.str /\ ~wrapped /\ encCount \in {1, 2}
     /\ verify_init_data([str |-> TRUE, s |-> plain], bot_token).ok)
    => /\ Success
       /\ result.payload = verify_init_data([str |-> TRUE, s |-> plain], bot_token).payload

C7_Witness ==
  /\ Done /\ init_data.str /\ ~wrapped /\ encCount = 2 /\ init_data.s # plain
  /\ USER \in DOMAIN signed
  /\ verify_init_data([str |-> TRUE, s |-> plain], bot_token).ok
  /\ Success

\* the field maps of the parse variants the canonicalizer attempts, in order
AttemptedVariants(s) ==
  LET raw == parse_init_data(s)
  IN <<<<raw, "raw">>>>
     \o (IF TGWEBAPPDATA \in DOMAIN raw
         THEN <<<<parse_init_data(unquote(raw[TGWEBAPPDATA])), "tgWebAppData_inner">>>>
         ELSE <<>>)
     \o (IF LooksPercentEncoded(s)
         THEN <<<<parse_init_data(unquote(s)), "unquote_once">>>> ELSE <<>>)
     \o <<<<parse_init_data(unquote(unquote(s))), "unquote_twice">>>>

NoVariantHasHash(s) ==
  \A i \in 1..Len(AttemptedVariants(s)) : HASH \notin DOMAIN AttemptedVariants(s)[i][1]

\* C8: a string credential none of whose parse variants has the hash key fails
\* with the missing-signature reason, whatever its other fields and the secret.
C8_MissingSignature ==
  (Done /\ init_data.str /\ NoVariantHasHash(init_data.s))
    => Fails("no hash in init_data")

C8_Witness ==
  /\ Done /\ init_data.str /\ NoVariantHasHash(init_data.s)
  /\ Cardinality(DOMAIN fields) >= 2 /\ hashMode = "absent"
  /\ Fails("no hash in init_data")

\* C9: the canonicalizer returns the map and tag of the first attempted variant
\* (raw, wrapper, decode-once, decode-twice) that has the hash key, and of the
\* last attempted variant when none has it.
C9_VariantPriority ==
  (pc \in {"wire", "done"} /\ init_data.str) =>
    LET av == AttemptedVariants(init_data.s)
        withHash == {i \in 1..Len(av) : HASH \in DOMAIN av[i][1]}
        pick == IF withHash = {} THEN Len(av)
                ELSE CHOOSE i \in withHash : \A j \in withHash : i <= j
        got == _try_parse_variants(init_data.s)
    IN got[1] = av[pick][1] /\ got[2] = av[pick][2]

C9_Witness ==
  /\ Done /\ init_data.str /\ wrapped /\ encCount = 1
  /\ HASH \notin DOMAIN parse_init_data(init_data.s)
  /\ _try_parse_variants(init_data.s)[2] = "tgWebAppData_inner"
  /\ HASH \in DOMAIN _try_parse_variants(init_data.s)[1]

\* C10: on success the signature of the chosen parse is the keyed digest, under
\* SHA256(bot_token), of the canonical string of the returned fields with
\* auth_date as the string it was parsed as; after a recovery the returned map
\* is the parsed one with the matching candidate as its user value.
C10_SuccessIsSound ==
  Success =>
    LET chosen == _try_parse_variants(init_data.s)[1]
        ret == result.payload
        pre == [k \in DOMAIN ret |-> IF ret[k].t = "int" THEN chosen[k] ELSE ret[k].v]
    IN /\ HASH \in DOMAIN chosen /\ HASH \notin DOMAIN ret
       /\ chosen[HASH] = Signature(pre, bot_token)
       /\ DOMAIN pre = DOMAIN chosen \ {HASH}
       /\ \A k \in DOMAIN pre \ {USER} : pre[k] = chosen[k]
       /\ USER \in DOMAIN pre =>
            \/ pre[USER] = chosen[USER]
            \/ Recovers(chosen[USER], pre[USER])

C10_Witness ==
  /\ Success /\ tampered = USER /\ AUTH_DATE \notin DOMAIN signed
  /\ result.payload[USER].v # _try_parse_variants(init_data.s)[1][USER]

====
